---- MODULE Spec2Model ----
(***************************************************************************)
(* State machine of the spy party game in src/src/App.tsx: the React       *)
(* component's state hooks are the variables, every button handler (with   *)
(* the rendering condition and the disabled attribute of its button) is an *)
(* action, and the timer effect is applied at the end of every action that *)
(* changes one of its dependencies.                                        *)
(*                                                                         *)
(* Modelling decisions:                                                    *)
(*  - Player ids (Math.random().toString(36)) are opaque; the handlers     *)
(*    only compare them for equality.  The model draws an id that no       *)
(*    roster player holds (collision-free draws), in increasing order.     *)
(*  - The text field newPlayerName is the input of AddPlayer: the action   *)
(*    is the onChange that types the text followed by the click.           *)
(*  - Names are sequences of characters so that trim() is computed.        *)
(*  - isEliminated is optional in the Player interface: it is "undefined", *)
(*    "true" or "false".                                                   *)
(*  - lastCall is a history variable: the last handler invoked and its     *)
(*    argument.  No handler reads it.                                      *)
(***************************************************************************)
EXTENDS Integers, Sequences, FiniteSets, TLC

\* ---------------------------------------------------------------- bounds
MaxPlayers == 4      \* largest roster the model builds
MaxDraws == 3        \* most Math.random() draws of one spy-picking loop
MaxTicks == 2        \* most timer ticks per round under Spec (SpecTimer is uncapped)

\* ------------------------------------------------------ program constants
RoundTime == 300     \* useState(300), setTimeLeft(300)
MinPlayers == 3      \* if (players.length < 3) return
SpyCounts == {1, 2}  \* [1, 2].map((count) => ...)

MaxId == MaxPlayers
Ids == 1..MaxId

\* the texts typed into the name field
NameInputs == { <<>>, <<" ">>, <<" ", "a", " ">> }

\* the content source ./constants (CATEGORIES): named categories, each with words
CATEGORIES ==
  << [name |-> "animals", words |-> <<"cat", "dog">>],
     [name |-> "food",    words |-> <<"rice">>] >>

VARIABLES
  gameState,           \* 'setup' | 'reveal' | 'playing' | 'voting' | 'elimination_result' | 'summary'
  players,             \* sequence of Player records
  selectedWord,
  selectedCategory,
  currentPlayerIndex,  \* 0-based
  isRoleVisible,
  timeLeft,
  isTimerActive,
  spyCount,
  votedPlayer,         \* <<>> for null, <<player>> otherwise
  victoryType,         \* "players" | "spies" | "null"
  lastCall             \* history: [op, arg] of the last handler invoked

vars == << gameState, players, selectedWord, selectedCategory, currentPlayerIndex,
           isRoleVisible, timeLeft, isTimerActive, spyCount, votedPlayer,
           victoryType, lastCall >>

GameStates == {"setup", "reveal", "playing", "voting", "elimination_result", "summary"}

\* ---------------------------------------------------------------- helpers
Min(a, b) == IF a < b THEN a ELSE b

\* JavaScript truthiness of the optional flag p.isEliminated
Truthy(flag) == flag = "true"

\* Array.prototype.includes on a sequence
Includes(s, x) == \E i \in 1..Len(s) : s[i] = x

\* Math.floor(Math.random() * n)
RandomIndex(n) == 0..(n - 1)

\* all sequences over S of length 1..n
RECURSIVE SeqsUpTo(_, _)
SeqsUpTo(S, n) ==
  IF n = 0 THEN {}
  ELSE LET shorter == SeqsUpTo(S, n - 1)
       IN  {<<x>> : x \in S} \cup shorter \cup
           {Append(s, x) : s \in shorter, x \in S}

\* String.prototype.trim
RECURSIVE TrimStart(_)
TrimStart(s) == IF s # <<>> /\ Head(s) = " " THEN TrimStart(Tail(s)) ELSE s
RECURSIVE TrimEnd(_)
TrimEnd(s) ==
  IF s # <<>> /\ s[Len(s)] = " " THEN TrimEnd(SubSeq(s, 1, Len(s) - 1)) ELSE s
Trim(s) == TrimEnd(TrimStart(s))

\* mutant: the spies are counted without the !p.isEliminated test
RemainingSpiesCountingEliminated(ps) ==
  SelectSeq(ps, LAMBDA p : p.role = "spy")

\* players.filter(p => p.role === 'spy' && !p.isEliminated), and its counterpart
RemainingSpies(ps) ==
  SelectSeq(ps, LAMBDA p : p.role = "spy" /\ ~Truthy(p.isEliminated))
RemainingPlayers(ps) ==
  SelectSeq(ps, LAMBDA p : p.role = "player" /\ ~Truthy(p.isEliminated))

\* mutant: the effect without its else-branch, so the timer is never switched off
TimerEffectNoStop(active, time) == active

\* The timer effect, run after a render in which isTimerActive or timeLeft
\* changed: with the timer active and time left an interval is set; with no
\* time left the timer is switched off.
TimerEffect(active, time) ==
  IF active /\ time > 0 THEN active
  ELSE IF time = 0 THEN FALSE
  ELSE active

Call(op, arg) == [op |-> op, arg |-> arg]

Init ==
  /\ gameState = "setup"
  /\ players = <<>>
  /\ selectedWord = ""
  /\ selectedCategory = ""
  /\ currentPlayerIndex = 0
  /\ isRoleVisible = FALSE
  /\ timeLeft = RoundTime
  /\ isTimerActive = FALSE
  /\ spyCount = 1
  /\ votedPlayer = <<>>
  /\ victoryType = "null"
  /\ lastCall = Call("init", <<>>)

\* ------------------------------------------------------------------ roster
\* an id no roster player holds
FreshIds(ps) == {i \in Ids : \A k \in 1..Len(ps) : ps[k].id < i}

\* mutant: the test and the stored name without trim()
AddPlayerUntrimmed(text, id) ==
  /\ gameState = "setup"
  /\ Len(players) < MaxPlayers
  /\ id \in FreshIds(players)
  /\ players' =
       IF text # <<>>
       THEN Append(players, [id |-> id, name |-> text, role |-> "player",
                             hasSeenRole |-> FALSE, isEliminated |-> "undefined"])
       ELSE players
  /\ lastCall' = Call("addPlayer", text)
  /\ UNCHANGED << gameState, selectedWord, selectedCategory, currentPlayerIndex,
                  isRoleVisible, timeLeft, isTimerActive, spyCount, votedPlayer,
                  victoryType >>

AddPlayer(text, id) ==
  /\ gameState = "setup"
  /\ Len(players) < MaxPlayers
  /\ id \in FreshIds(players)
  /\ players' =
       IF Trim(text) # <<>>
       THEN Append(players, [id |-> id, name |-> Trim(text), role |-> "player",
                             hasSeenRole |-> FALSE, isEliminated |-> "undefined"])
       ELSE players
  /\ lastCall' = Call("addPlayer", text)
  /\ UNCHANGED << gameState, selectedWord, selectedCategory, currentPlayerIndex,
                  isRoleVisible, timeLeft, isTimerActive, spyCount, votedPlayer,
                  victoryType >>

RemovePlayer(id) ==
  /\ gameState = "setup"
  /\ players' = SelectSeq(players, LAMBDA p : p.id # id)
  /\ lastCall' = Call("removePlayer", <<id>>)
  /\ UNCHANGED << gameState, selectedWord, selectedCategory, currentPlayerIndex,
                  isRoleVisible, timeLeft, isTimerActive, spyCount, votedPlayer,
                  victoryType >>

SetSpyCount(count) ==
  /\ gameState = "setup"
  /\ spyCount' = count
  /\ lastCall' = Call("setSpyCount", <<count>>)
  /\ UNCHANGED << gameState, players, selectedWord, selectedCategory,
                  currentPlayerIndex, isRoleVisible, timeLeft, isTimerActive,
                  votedPlayer, victoryType >>

\* -------------------------------------------------------------- round start
\* while (spyIndices.length < actualSpyCount) { draw; push unless included }
\* run on the sequence of random draws: the loop's array, the draws it left
\* unread, and whether its condition became false.
\* mutant: the loop without the includes() test pushes a repeated draw
RECURSIVE SpyLoopNoIncludes(_, _, _)
SpyLoopNoIncludes(spyIndices, draws, actualSpyCount) ==
  IF ~(Len(spyIndices) < actualSpyCount)
  THEN [indices |-> spyIndices, unread |-> draws, exited |-> TRUE]
  ELSE IF draws = <<>>
  THEN [indices |-> spyIndices, unread |-> draws, exited |-> FALSE]
  ELSE SpyLoopNoIncludes(Append(spyIndices, Head(draws)), Tail(draws), actualSpyCount)

RECURSIVE SpyLoop(_, _, _)
SpyLoop(spyIndices, draws, actualSpyCount) ==
  IF ~(Len(spyIndices) < actualSpyCount)
  THEN [indices |-> spyIndices, unread |-> draws, exited |-> TRUE]
  ELSE IF draws = <<>>
  THEN [indices |-> spyIndices, unread |-> draws, exited |-> FALSE]
  ELSE LET randomIndex == Head(draws)
       IN  SpyLoop(IF ~Includes(spyIndices, randomIndex)
                   THEN Append(spyIndices, randomIndex)
                   ELSE spyIndices,
                   Tail(draws), actualSpyCount)

\* Math.min(spyCount, players.length - 1)
ActualSpyCount(count, n) == Min(count, n - 1)

\* players.map((p, i) => ({...p, role: ..., hasSeenRole: false}))
AssignRoles(ps, spyIndices) ==
  [i \in 1..Len(ps) |->
     [ps[i] EXCEPT !.role = IF Includes(spyIndices, i - 1) THEN "spy" ELSE "player",
                   !.hasSeenRole = FALSE]]

\* the sequences of draws on which the loop ends, reading every draw
SpyDraws(n, actualSpyCount) ==
  {d \in SeqsUpTo(RandomIndex(n), MaxDraws) :
     LET run == SpyLoop(<<>>, d, actualSpyCount)
     IN  run.exited /\ run.unread = <<>>}

\* mutant: the guard off by one lets a roster of two start a round
TooFewPlayersOffByOne(ps) == Len(ps) < MinPlayers - 1

\* if (players.length < 3) return; and disabled={players.length < 3}
TooFewPlayers(ps) == Len(ps) < MinPlayers

\* the start button is rendered in setup; c and w are the category and word
\* draws, draws the indices drawn by the spy-picking loop
StartGame ==
  /\ gameState = "setup"
  /\ lastCall' = Call("startGame", <<>>)
  /\ IF TooFewPlayers(players)
     THEN UNCHANGED << gameState, players, selectedWord, selectedCategory,
                       currentPlayerIndex, isRoleVisible, timeLeft, isTimerActive,
                       spyCount, votedPlayer, victoryType >>
     ELSE /\ \E c \in RandomIndex(Len(CATEGORIES)) :
               \E w \in RandomIndex(Len(CATEGORIES[c + 1].words)) :
                 LET category == CATEGORIES[c + 1]
                     word == category.words[w + 1]
                 IN  /\ selectedWord' = word
                     /\ selectedCategory' = category.name
          /\ LET actualSpyCount == ActualSpyCount(spyCount, Len(players))
             IN  \E draws \in SpyDraws(Len(players), actualSpyCount) :
                   LET spyIndices == SpyLoop(<<>>, draws, actualSpyCount).indices
                   IN  players' = AssignRoles(players, spyIndices)
          /\ gameState' = "reveal"
          /\ currentPlayerIndex' = 0
          /\ isRoleVisible' = FALSE
          /\ timeLeft' = RoundTime
          /\ isTimerActive' = TimerEffect(isTimerActive, RoundTime)
          /\ UNCHANGED << spyCount, votedPlayer, victoryType >>

\* ------------------------------------------------------------------ reveal
\* the eye button, rendered while the role is hidden
RevealRole ==
  /\ gameState = "reveal"
  /\ ~isRoleVisible
  /\ isRoleVisible' = TRUE
  /\ lastCall' = Call("revealRole", <<>>)
  /\ UNCHANGED << gameState, players, selectedWord, selectedCategory,
                  currentPlayerIndex, timeLeft, isTimerActive, spyCount,
                  votedPlayer, victoryType >>

\* mutant: the next-player button without its disabled attribute
NextPlayerNeverDisabled == FALSE

\* disabled={!isRoleVisible} on the next-player button
NextPlayerDisabled == ~isRoleVisible

\* mutant: the current player is not marked
MarkSeenNobody(ps, index) == ps

\* updatedPlayers[currentPlayerIndex].hasSeenRole = true
MarkSeen(ps, index) == [ps EXCEPT ![index + 1].hasSeenRole = TRUE]

\* a click on the next-player button
NextPlayer ==
  /\ gameState = "reveal"
  /\ lastCall' = Call("nextPlayer", <<>>)
  /\ IF NextPlayerDisabled
     THEN UNCHANGED << gameState, players, selectedWord, selectedCategory,
                       currentPlayerIndex, isRoleVisible, timeLeft, isTimerActive,
                       spyCount, votedPlayer, victoryType >>
     ELSE /\ players' = MarkSeen(players, currentPlayerIndex)
          /\ IF currentPlayerIndex < Len(players) - 1
             THEN /\ currentPlayerIndex' = currentPlayerIndex + 1
                  /\ isRoleVisible' = FALSE
                  /\ UNCHANGED << gameState, isTimerActive >>
             ELSE /\ gameState' = "playing"
                  /\ isTimerActive' = TimerEffect(TRUE, timeLeft)
                  /\ UNCHANGED << currentPlayerIndex, isRoleVisible >>
          /\ UNCHANGED << selectedWord, selectedCategory, timeLeft, spyCount,
                          votedPlayer, victoryType >>

\* ----------------------------------------------------------------- playing
\* setInterval callback: setTimeLeft((prev) => prev - 1), then the effect
Tick ==
  /\ isTimerActive /\ timeLeft > 0
  /\ timeLeft' = timeLeft - 1
  /\ isTimerActive' = TimerEffect(isTimerActive, timeLeft - 1)
  /\ lastCall' = Call("tick", <<>>)
  /\ UNCHANGED << gameState, players, selectedWord, selectedCategory,
                  currentPlayerIndex, isRoleVisible, spyCount, votedPlayer,
                  victoryType >>

\* onClick={() => setIsTimerActive(!isTimerActive)}
ToggleTimer ==
  /\ gameState = "playing"
  /\ isTimerActive' = TimerEffect(~isTimerActive, timeLeft)
  /\ lastCall' = Call("toggleTimer", <<>>)
  /\ UNCHANGED << gameState, players, selectedWord, selectedCategory,
                  currentPlayerIndex, isRoleVisible, timeLeft, spyCount,
                  votedPlayer, victoryType >>

\* onClick={() => setGameState('voting')}
OpenVoting ==
  /\ gameState = "playing"
  /\ gameState' = "voting"
  /\ lastCall' = Call("openVoting", <<>>)
  /\ UNCHANGED << players, selectedWord, selectedCategory, currentPlayerIndex,
                  isRoleVisible, timeLeft, isTimerActive, spyCount, votedPlayer,
                  victoryType >>

\* mutant: the back button leads to the setup screen
BackToSetup ==
  /\ gameState = "voting"
  /\ gameState' = "setup"
  /\ lastCall' = Call("back", <<>>)
  /\ UNCHANGED << players, selectedWord, selectedCategory, currentPlayerIndex,
                  isRoleVisible, timeLeft, isTimerActive, spyCount, votedPlayer,
                  victoryType >>

\* the back button of the voting screen: onClick={() => setGameState('playing')}
BackToPlaying ==
  /\ gameState = "voting"
  /\ gameState' = "playing"
  /\ lastCall' = Call("back", <<>>)
  /\ UNCHANGED << players, selectedWord, selectedCategory, currentPlayerIndex,
                  isRoleVisible, timeLeft, isTimerActive, spyCount, votedPlayer,
                  victoryType >>

\* mutant: endGame without setIsTimerActive(false)
EndGameKeepsTimer ==
  /\ gameState = "playing"
  /\ gameState' = "summary"
  /\ isTimerActive' = TimerEffect(isTimerActive, timeLeft)
  /\ victoryType' = "null"
  /\ lastCall' = Call("endGame", <<>>)
  /\ UNCHANGED << players, selectedWord, selectedCategory, currentPlayerIndex,
                  isRoleVisible, timeLeft, spyCount, votedPlayer >>

EndGame ==
  /\ gameState = "playing"
  /\ gameState' = "summary"
  /\ isTimerActive' = TimerEffect(FALSE, timeLeft)
  /\ victoryType' = "null"
  /\ lastCall' = Call("endGame", <<>>)
  /\ UNCHANGED << players, selectedWord, selectedCategory, currentPlayerIndex,
                  isRoleVisible, timeLeft, spyCount, votedPlayer >>

\* ------------------------------------------------------------------ voting
\* mutant: the voting screen lists every player
VotingListUnfiltered(ps) == ps

\* players.filter(p => !p.isEliminated): the players with a vote button
VotingList(ps) == SelectSeq(ps, LAMBDA p : ~Truthy(p.isEliminated))

\* mutant: the map without the id test eliminates every player
EliminateEveryone(ps, player) ==
  [i \in 1..Len(ps) |-> [ps[i] EXCEPT !.isEliminated = "true"]]

\* mutant: the eliminated player also loses the role
EliminateClearingRole(ps, player) ==
  [i \in 1..Len(ps) |->
     IF ps[i].id = player.id
     THEN [ps[i] EXCEPT !.isEliminated = "true", !.role = "player"]
     ELSE ps[i]]

\* mutant: the map returns every player as it was
EliminateNobody(ps, player) == ps

\* players.map(p => p.id === player.id ? { ...p, isEliminated: true } : p)
Eliminate(ps, player) ==
  [i \in 1..Len(ps) |->
     IF ps[i].id = player.id THEN [ps[i] EXCEPT !.isEliminated = "true"] ELSE ps[i]]

\* mutant: handleVote without setIsTimerActive(false)
HandleVoteKeepsTimer(player) ==
  /\ votedPlayer' = <<player>>
  /\ players' = Eliminate(players, player)
  /\ gameState' = "elimination_result"
  /\ UNCHANGED << selectedWord, selectedCategory, currentPlayerIndex,
                  isRoleVisible, timeLeft, isTimerActive, spyCount, victoryType >>

HandleVote(player) ==
  /\ votedPlayer' = <<player>>
  /\ players' = Eliminate(players, player)
  /\ gameState' = "elimination_result"
  /\ isTimerActive' = TimerEffect(FALSE, timeLeft)
  /\ UNCHANGED << selectedWord, selectedCategory, currentPlayerIndex,
                  isRoleVisible, timeLeft, spyCount, victoryType >>

\* a vote for the player with this id: a click on that player's button, if the
\* voting screen renders one
CastVote(id) ==
  /\ gameState = "voting"
  /\ lastCall' = Call("castVote", <<id>>)
  /\ LET list == VotingList(players)
     IN  IF \E i \in 1..Len(list) : list[i].id = id
         THEN \E i \in 1..Len(list) : list[i].id = id /\ HandleVote(list[i])
         ELSE UNCHANGED << gameState, players, selectedWord, selectedCategory,
                           currentPlayerIndex, isRoleVisible, timeLeft,
                           isTimerActive, spyCount, votedPlayer, victoryType >>

\* -------------------------------------------------------- elimination result
\* mutant: the continuation restarts the countdown
ContinueRestartingCountdown ==
  /\ gameState = "elimination_result"
  /\ votedPlayer # <<>>
  /\ lastCall' = Call("continueAfterElimination", <<>>)
  /\ LET remainingSpies == RemainingSpies(players)
         remainingPlayers == RemainingPlayers(players)
     IN  IF Len(remainingSpies) = 0
         THEN /\ victoryType' = "players"
              /\ gameState' = "summary"
              /\ UNCHANGED << isTimerActive, votedPlayer, timeLeft >>
         ELSE IF Len(remainingPlayers) <= Len(remainingSpies)
         THEN /\ victoryType' = "spies"
              /\ gameState' = "summary"
              /\ UNCHANGED << isTimerActive, votedPlayer, timeLeft >>
         ELSE /\ gameState' = "playing"
              /\ timeLeft' = RoundTime
              /\ isTimerActive' = TimerEffect(TRUE, RoundTime)
              /\ votedPlayer' = <<>>
              /\ UNCHANGED victoryType
  /\ UNCHANGED << players, selectedWord, selectedCategory, currentPlayerIndex,
                  isRoleVisible, spyCount >>

\* mutant: a tie of non-spies and spies does not end the round (< for <=)
ContinueOnTie ==
  /\ gameState = "elimination_result"
  /\ votedPlayer # <<>>
  /\ lastCall' = Call("continueAfterElimination", <<>>)
  /\ LET remainingSpies == RemainingSpies(players)
         remainingPlayers == RemainingPlayers(players)
     IN  IF Len(remainingSpies) = 0
         THEN /\ victoryType' = "players"
              /\ gameState' = "summary"
              /\ UNCHANGED << isTimerActive, votedPlayer >>
         ELSE IF Len(remainingPlayers) < Len(remainingSpies)
         THEN /\ victoryType' = "spies"
              /\ gameState' = "summary"
              /\ UNCHANGED << isTimerActive, votedPlayer >>
         ELSE /\ gameState' = "playing"
              /\ isTimerActive' = TimerEffect(TRUE, timeLeft)
              /\ votedPlayer' = <<>>
              /\ UNCHANGED victoryType
  /\ UNCHANGED << players, selectedWord, selectedCategory, currentPlayerIndex,
                  isRoleVisible, timeLeft, spyCount >>

\* mutant: the two outcomes are set the wrong way round
ContinueOutcomesSwapped ==
  /\ gameState = "elimination_result"
  /\ votedPlayer # <<>>
  /\ lastCall' = Call("continueAfterElimination", <<>>)
  /\ LET remainingSpies == RemainingSpies(players)
         remainingPlayers == RemainingPlayers(players)
     IN  IF Len(remainingSpies) = 0
         THEN /\ victoryType' = "spies"
              /\ gameState' = "summary"
              /\ UNCHANGED << isTimerActive, votedPlayer >>
         ELSE IF Len(remainingPlayers) <= Len(remainingSpies)
         THEN /\ victoryType' = "players"
              /\ gameState' = "summary"
              /\ UNCHANGED << isTimerActive, votedPlayer >>
         ELSE /\ gameState' = "playing"
              /\ isTimerActive' = TimerEffect(TRUE, timeLeft)
              /\ votedPlayer' = <<>>
              /\ UNCHANGED victoryType
  /\ UNCHANGED << players, selectedWord, selectedCategory, currentPlayerIndex,
                  isRoleVisible, timeLeft, spyCount >>

\* the continue button is rendered when gameState === 'elimination_result' && votedPlayer
ContinueAfterElimination ==
  /\ gameState = "elimination_result"
  /\ votedPlayer # <<>>
  /\ lastCall' = Call("continueAfterElimination", <<>>)
  /\ LET remainingSpies == RemainingSpies(players)
         remainingPlayers == RemainingPlayers(players)
     IN  IF Len(remainingSpies) = 0
         THEN /\ victoryType' = "players"
              /\ gameState' = "summary"
              /\ UNCHANGED << isTimerActive, votedPlayer >>
         ELSE IF Len(remainingPlayers) <= Len(remainingSpies)
         THEN /\ victoryType' = "spies"
              /\ gameState' = "summary"
              /\ UNCHANGED << isTimerActive, votedPlayer >>
         ELSE /\ gameState' = "playing"
              /\ isTimerActive' = TimerEffect(TRUE, timeLeft)
              /\ votedPlayer' = <<>>
              /\ UNCHANGED victoryType
  /\ UNCHANGED << players, selectedWord, selectedCategory, currentPlayerIndex,
                  isRoleVisible, timeLeft, spyCount >>

\* ----------------------------------------------------------------- summary
\* mutant: the reset keeps the elimination flags
ClearPlayersKeepEliminated(ps) ==
  [i \in 1..Len(ps) |-> [ps[i] EXCEPT !.role = "player", !.hasSeenRole = FALSE]]

\* players.map(p => ({ ...p, role: 'player', hasSeenRole: false, isEliminated: false }))
ClearPlayers(ps) ==
  [i \in 1..Len(ps) |->
     [ps[i] EXCEPT !.role = "player", !.hasSeenRole = FALSE, !.isEliminated = "false"]]

\* mutant: resetGame without setVictoryType(null)
ResetGameKeepsOutcome ==
  /\ gameState = "summary"
  /\ gameState' = "setup"
  /\ players' = ClearPlayers(players)
  /\ isTimerActive' = TimerEffect(FALSE, timeLeft)
  /\ votedPlayer' = <<>>
  /\ lastCall' = Call("resetGame", <<>>)
  /\ UNCHANGED << selectedWord, selectedCategory, currentPlayerIndex,
                  isRoleVisible, timeLeft, spyCount, victoryType >>

ResetGame ==
  /\ gameState = "summary"
  /\ gameState' = "setup"
  /\ players' = ClearPlayers(players)
  /\ isTimerActive' = TimerEffect(FALSE, timeLeft)
  /\ votedPlayer' = <<>>
  /\ victoryType' = "null"
  /\ lastCall' = Call("resetGame", <<>>)
  /\ UNCHANGED << selectedWord, selectedCategory, currentPlayerIndex,
                  isRoleVisible, timeLeft, spyCount >>

\* ---------------------------------------------------------- specifications
\* under Spec at most MaxTicks seconds of a round elapse
BoundedTick ==
  /\ timeLeft > RoundTime - MaxTicks
  /\ Tick

Next ==
  \/ \E text \in NameInputs, id \in Ids : AddPlayer(text, id)
  \/ \E id \in Ids : RemovePlayer(id)
  \/ \E count \in SpyCounts : SetSpyCount(count)
  \/ StartGame
  \/ RevealRole
  \/ NextPlayer
  \/ BoundedTick
  \/ ToggleTimer
  \/ OpenVoting
  \/ BackToPlaying
  \/ EndGame
  \/ \E id \in Ids : CastVote(id)
  \/ ContinueAfterElimination
  \/ ResetGame

Spec == Init /\ [][Next]_vars

\* The timer specification: a round's whole countdown.  It starts in setup
\* with a roster already entered (MinPlayers players, or one more so that a
\* round can continue after an elimination) and leaves the roster alone.
NewPlayer(id) ==
  [id |-> id, name |-> <<"a">>, role |-> "player", hasSeenRole |-> FALSE,
   isEliminated |-> "undefined"]

TimerRosters == {[i \in 1..n |-> NewPlayer(i)] : n \in MinPlayers..(MinPlayers + 1)}

InitTimer ==
  /\ gameState = "setup"
  /\ players \in TimerRosters
  /\ selectedWord = ""
  /\ selectedCategory = ""
  /\ currentPlayerIndex = 0
  /\ isRoleVisible = FALSE
  /\ timeLeft = RoundTime
  /\ isTimerActive = FALSE
  /\ spyCount = 1
  /\ votedPlayer = <<>>
  /\ victoryType = "null"
  /\ lastCall = Call("init", <<>>)

NextTimer ==
  \/ \E count \in SpyCounts : SetSpyCount(count)
  \/ StartGame
  \/ RevealRole
  \/ NextPlayer
  \/ Tick
  \/ ToggleTimer
  \/ OpenVoting
  \/ BackToPlaying
  \/ EndGame
  \/ \E id \in Ids : CastVote(id)
  \/ ContinueAfterElimination
  \/ ResetGame

SpecTimer == InitTimer /\ [][NextTimer]_vars

\* ------------------------------------------------------------------ claims
Positions == 1..Len(players)
SpyPositions == {i \in Positions : players[i].role = "spy"}
\* the positions of the non-eliminated players with this role
Alive(ps, role) ==
  {i \in 1..Len(ps) : ps[i].role = role /\ ps[i].isEliminated # "true"}
JustCalled(op) == lastCall.op = op
StartedRound == JustCalled("startGame") /\ gameState = "reveal"

\* C1: right after a successful startGame on N >= 3 players with spy count k,
\* exactly min(k, N - 1) roster positions have role spy and at least one
\* player has role player.
C1_SpyCount ==
  StartedRound =>
    /\ Len(players) >= MinPlayers
    /\ Cardinality(SpyPositions) = Min(spyCount, Len(players) - 1)
    /\ \E i \in Positions : players[i].role = "player"

C1_Witness ==
  /\ StartedRound
  /\ spyCount = 2
  /\ Len(players) = MaxPlayers
  /\ Cardinality(SpyPositions) = 2

\* C2: the remaining time is decremented only while the phase is playing: no
\* step taken in setup, reveal, voting, elimination_result or summary lowers it.
C2_TimerOnlyWhilePlaying ==
  [][timeLeft' < timeLeft => gameState = "playing"]_vars

\* C3: continueAfterElimination decides by the roster counts: no spy left
\* gives outcome players and phase summary; otherwise non-spies <= spies (a
\* tie included) gives outcome spies and phase summary; otherwise no outcome
\* is set and the phase becomes playing.
C3_ContinueDecides ==
  [][lastCall'.op = "continueAfterElimination" =>
       LET spies == Cardinality(Alive(players, "spy"))
           others == Cardinality(Alive(players, "player"))
       IN  /\ gameState = "elimination_result"
           /\ IF spies = 0
              THEN victoryType' = "players" /\ gameState' = "summary"
              ELSE IF others <= spies
              THEN victoryType' = "spies" /\ gameState' = "summary"
              ELSE victoryType' = "null" /\ gameState' = "playing"]_vars

\* a tie of one spy and one other player ended as a win of the spies
C3_Witness ==
  /\ JustCalled("continueAfterElimination")
  /\ gameState = "summary"
  /\ victoryType = "spies"
  /\ Cardinality(Alive(players, "spy")) = 1
  /\ Cardinality(Alive(players, "player")) = 1

\* C4: in phase reveal a click on next-player while the role is hidden changes
\* neither the reveal index, the phase, any player's hasSeenRole nor the
\* timer flag.
C4_AdvanceHiddenIsNoOp ==
  [][(lastCall'.op = "nextPlayer" /\ gameState = "reveal" /\ ~isRoleVisible) =>
       UNCHANGED << currentPlayerIndex, gameState, players, isTimerActive,
                    isRoleVisible >>]_vars

\* reveal index 0 after a next-player call: the call was made before the
\* first role was shown
C4_Witness ==
  /\ JustCalled("nextPlayer")
  /\ gameState = "reveal"
  /\ currentPlayerIndex = 0
  /\ ~isRoleVisible

\* C5: during reveal the players before the reveal index, and only they, have
\* seen their role, and the index is a roster position; the phase leaves
\* reveal only by the next-player call of the last player, to playing with the
\* timer running; outside setup and reveal every player has seen the role.
C5_State ==
  /\ gameState = "reveal" =>
       /\ currentPlayerIndex \in 0..(Len(players) - 1)
       /\ \A i \in Positions : players[i].hasSeenRole <=> (i - 1 < currentPlayerIndex)
  /\ gameState \in {"playing", "voting", "elimination_result", "summary"} =>
       \A i \in Positions : players[i].hasSeenRole

C5_RevealCompletion ==
  [][/\ C5_State'
     /\ (gameState = "reveal" /\ gameState' # "reveal") =>
          /\ lastCall'.op = "nextPlayer"
          /\ isRoleVisible
          /\ currentPlayerIndex = Len(players) - 1
          /\ gameState' = "playing"
          /\ isTimerActive']_vars

C5_Witness ==
  /\ JustCalled("nextPlayer")
  /\ gameState = "playing"
  /\ isTimerActive
  /\ Len(players) = MaxPlayers
  /\ \A i \in Positions : players[i].hasSeenRole

\* C6: right after a successful startGame every player has hasSeenRole false
\* and isEliminated false or unset, the reveal index is 0, the role is hidden,
\* the remaining time is 300 and the timer is not running.
C6_FreshRound ==
  StartedRound =>
    /\ \A i \in Positions :
         /\ players[i].hasSeenRole = FALSE
         /\ players[i].isEliminated \in {"false", "undefined"}
    /\ currentPlayerIndex = 0
    /\ isRoleVisible = FALSE
    /\ timeLeft = RoundTime
    /\ isTimerActive = FALSE

\* a round started after a reset (the reset wrote isEliminated: false)
C6_Witness ==
  /\ StartedRound
  /\ \E i \in Positions : players[i].isEliminated = "false"
  /\ \E i \in Positions : players[i].isEliminated = "undefined"

\* the roster has a non-eliminated player with this id
Votable(ps, id) ==
  \E i \in 1..Len(ps) : ps[i].id = id /\ ps[i].isEliminated # "true"

\* C7: a vote in phase voting for a non-eliminated roster player p sets
\* p.isEliminated, records p as the last-voted player, stops the timer and
\* moves to elimination_result; every other player and p's other fields, the
\* word and the category are unchanged.
C7_VoteEffect ==
  [][(lastCall'.op = "castVote" /\ gameState = "voting"
        /\ Votable(players, lastCall'.arg[1])) =>
       LET id == lastCall'.arg[1]
       IN  /\ Len(players') = Len(players)
           /\ \A i \in Positions :
                IF players[i].id = id
                THEN players'[i] = [players[i] EXCEPT !.isEliminated = "true"]
                ELSE players'[i] = players[i]
           /\ Len(votedPlayer') = 1
           /\ votedPlayer'[1].id = id
           /\ \E i \in Positions : players[i] = votedPlayer'[1]
           /\ isTimerActive' = FALSE
           /\ gameState' = "elimination_result"
           /\ UNCHANGED << selectedWord, selectedCategory >>]_vars

\* a second elimination of a round: one player was eliminated before
C7_Witness ==
  /\ JustCalled("castVote")
  /\ gameState = "elimination_result"
  /\ votedPlayer # <<>>
  /\ \E i, j \in Positions :
       /\ i # j
       /\ players[i].isEliminated = "true"
       /\ players[j].isEliminated = "true"
       /\ players[i].id = lastCall.arg[1]

\* C8: a vote whose target is eliminated or not in the roster changes
\* neither the phase, the roster, the last-voted player nor the timer flag.
C8_VoteRejected ==
  [][(lastCall'.op = "castVote" /\ gameState = "voting"
        /\ ~Votable(players, lastCall'.arg[1])) =>
       UNCHANGED << gameState, players, votedPlayer, isTimerActive >>]_vars

\* a vote for an eliminated player
C8_Witness ==
  /\ JustCalled("castVote")
  /\ gameState = "voting"
  /\ \E i \in Positions :
       players[i].id = lastCall.arg[1] /\ players[i].isEliminated = "true"

\* C9: every tick lowers the remaining time by exactly 1 and leaves the phase
\* alone; the remaining time stays within 0..300; the tick that reaches 0
\* switches the timer off, and at 0 the timer is never running, so no further
\* tick is possible.
C9_State ==
  /\ timeLeft \in 0..RoundTime
  /\ timeLeft = 0 => ~isTimerActive

C9_Countdown ==
  [][/\ C9_State'
     /\ lastCall'.op = "tick" =>
          /\ isTimerActive
          /\ timeLeft' = timeLeft - 1
          /\ gameState' = gameState
          /\ isTimerActive' = (timeLeft' > 0)]_vars

\* a tick that reached 0 in phase playing
C9_Witness ==
  /\ JustCalled("tick")
  /\ timeLeft = 0
  /\ ~isTimerActive
  /\ gameState = "playing"

\* C10: startGame with fewer than 3 players leaves the phase at setup and
\* changes no role, word, category, reveal index or timer field.
C10_StartRejected ==
  [][(lastCall'.op = "startGame" /\ Len(players) < 3) =>
       /\ gameState' = "setup"
       /\ UNCHANGED << gameState, players, selectedWord, selectedCategory,
                       currentPlayerIndex, isRoleVisible, timeLeft,
                       isTimerActive >>]_vars

C10_Witness ==
  /\ JustCalled("startGame")
  /\ gameState = "setup"
  /\ Len(players) = 2

\* the positions of the eliminated players
Eliminated(ps) == {i \in 1..Len(ps) : ps[i].isEliminated = "true"}

\* C11: endGame, invoked in phase playing, always ends in phase summary with
\* no outcome and the timer stopped, whatever players are left.
C11_EndGame ==
  [][lastCall'.op = "endGame" =>
       /\ gameState = "playing"
       /\ gameState' = "summary"
       /\ victoryType' = "null"
       /\ isTimerActive' = FALSE]_vars

\* the game ended by hand after an elimination, with a spy still in play
C11_Witness ==
  /\ JustCalled("endGame")
  /\ gameState = "summary"
  /\ Eliminated(players) # {}
  /\ Alive(players, "spy") # {}

\* C12: after resetGame the roster's ids, names and order are those the round
\* started with, every player has role player, hasSeenRole false and
\* isEliminated false, outcome and last-voted player are none, the timer is
\* not running and the remaining time is 300.
Identity(ps) == [i \in 1..Len(ps) |-> << ps[i].id, ps[i].name >>]

C12_ResetClears ==
  [][/\ (gameState # "setup" \/ lastCall'.op = "startGame") =>
          Identity(players') = Identity(players)
     /\ lastCall'.op = "resetGame" =>
          /\ gameState = "summary" /\ gameState' = "setup"
          /\ \A i \in 1..Len(players') :
               /\ players'[i].role = "player"
               /\ players'[i].hasSeenRole = FALSE
               /\ players'[i].isEliminated = "false"
          /\ victoryType' = "null"
          /\ votedPlayer' = <<>>
          /\ isTimerActive' = FALSE
          /\ timeLeft' = RoundTime]_vars

\* C13: a round started after resetGame is indistinguishable from a first
\* round on the same roster and spy count.  Whatever happened before, the
\* state right after startGame is fixed by the roster and the spy count up to
\* the choice of the spies (min(k, N - 1) positions; nobody has seen a role
\* or is eliminated; index 0, role hidden, 300 seconds, timer off, no
\* outcome, no last-voted player), and both right after resetGame and before
\* the first round startGame can choose every such set of spies.
SpySets(n, count) ==
  {S \in SUBSET (1..n) : Cardinality(S) = Min(count, n - 1)}

C13_StartLikeFirst ==
  /\ StartedRound =>
       /\ SpyPositions \in SpySets(Len(players), spyCount)
       /\ \A i \in Positions :
            /\ players[i].role \in {"spy", "player"}
            /\ players[i].hasSeenRole = FALSE
            /\ players[i].isEliminated # "true"
       /\ currentPlayerIndex = 0
       /\ isRoleVisible = FALSE
       /\ timeLeft = RoundTime
       /\ isTimerActive = FALSE
       /\ victoryType = "null"
       /\ votedPlayer = <<>>
  /\ (gameState = "setup" /\ Len(players) >= 3
        /\ (JustCalled("resetGame") \/ selectedWord = "")) =>
       \A S \in SpySets(Len(players), spyCount) :
         ENABLED (StartGame /\ {i \in 1..Len(players') : players'[i].role = "spy"} = S)

\* a round started after a reset: every player carries the reset's
\* isEliminated: false
C13_Witness ==
  /\ StartedRound
  /\ spyCount = 2
  /\ \A i \in Positions : players[i].isEliminated = "false"

\* a continueAfterElimination step that meets neither win condition
ContinuesRound ==
  /\ lastCall'.op = "continueAfterElimination"
  /\ Alive(players, "spy") # {}
  /\ Cardinality(Alive(players, "player")) > Cardinality(Alive(players, "spy"))

\* C14 as stated: when the round continues, the phase becomes playing, the
\* timer runs and the last-voted player is cleared, while the roster, the
\* word, the category and the remaining time are unchanged.
C14_ContinueStartsTimer ==
  [][ContinuesRound =>
       /\ gameState' = "playing"
       /\ isTimerActive' = TRUE
       /\ votedPlayer' = <<>>
       /\ UNCHANGED << players, selectedWord, selectedCategory, timeLeft >>]_vars

\* C14 amended: as stated, but the timer runs only if time is left; with
\* the remaining time at 0 it stays off.
C14_ContinueKeepsRound ==
  [][ContinuesRound =>
       /\ gameState' = "playing"
       /\ isTimerActive' = (timeLeft > 0)
       /\ votedPlayer' = <<>>
       /\ UNCHANGED << players, selectedWord, selectedCategory, timeLeft >>]_vars

\* a round continued with time left: the timer runs again, from where it was
C14_Witness ==
  /\ JustCalled("continueAfterElimination")
  /\ gameState = "playing"
  /\ isTimerActive
  /\ timeLeft \in 1..(RoundTime - 1)
  /\ votedPlayer = <<>>
  /\ Eliminated(players) # {}

\* the phase changes of the state machine, each with the handler that makes it
SpecifiedEdges ==
  { << "setup", "reveal", "startGame" >>,
    << "reveal", "playing", "nextPlayer" >>,
    << "playing", "voting", "openVoting" >>,
    << "voting", "elimination_result", "castVote" >>,
    << "elimination_result", "playing", "continueAfterElimination" >>,
    << "elimination_result", "summary", "continueAfterElimination" >>,
    << "playing", "summary", "endGame" >>,
    << "summary", "setup", "resetGame" >> }

PhaseChange == << gameState, gameState', lastCall'.op >>

\* C15 as stated: every change of phase is one of the specified edges, so the
\* only way out of voting is a cast vote.
C15_OnlySpecifiedEdges ==
  [][gameState' # gameState => PhaseChange \in SpecifiedEdges]_vars

\* C15 amended: every change of phase is one of the specified edges or the
\* voting screen's back button, from voting to playing.
C15_EdgesWithBack ==
  [][gameState' # gameState =>
       PhaseChange \in SpecifiedEdges \cup { << "voting", "playing", "back" >> }]_vars

\* back in playing from the voting screen, without a vote
C15_Witness ==
  /\ JustCalled("back")
  /\ gameState = "playing"
  /\ Eliminated(players) = {}

\* C16: within a round the non-eliminated non-spies, the non-eliminated spies
\* and the eliminated players add up to the roster size, and every vote cast
\* for a non-eliminated roster player raises the number of eliminated players
\* by exactly 1; continueAfterElimination leaves it alone.
Accounting(ps) ==
  Cardinality(Alive(ps, "player")) + Cardinality(Alive(ps, "spy"))
    + Cardinality(Eliminated(ps)) = Len(ps)

C16_EliminationAccounting ==
  [][/\ Accounting(players')
     /\ (lastCall'.op = "castVote" /\ Votable(players, lastCall'.arg[1])) =>
          Cardinality(Eliminated(players')) = Cardinality(Eliminated(players)) + 1
     /\ lastCall'.op = "continueAfterElimination" =>
          Eliminated(players') = Eliminated(players)]_vars

\* the second elimination of a round
C16_Witness ==
  /\ JustCalled("castVote")
  /\ gameState = "elimination_result"
  /\ Cardinality(Eliminated(players)) = 2
  /\ Accounting(players)

\* C17: whenever the phase is summary or setup the timer is not running; no
\* tick fires there, and the remaining time does not change from one summary
\* or setup state to the next.
Untimed == {"summary", "setup"}

C17_NoTickAfterRound ==
  [][/\ gameState' \in Untimed => isTimerActive' = FALSE
     /\ gameState \in Untimed => lastCall'.op # "tick"
     /\ (gameState \in Untimed /\ gameState' \in Untimed) => timeLeft' = timeLeft]_vars

\* a round won by a vote cast while the countdown had been running
C17_Witness ==
  /\ JustCalled("continueAfterElimination")
  /\ gameState = "summary"
  /\ timeLeft < RoundTime
  /\ ~isTimerActive

\* C18: from the state right after startGame until resetGame runs, no step
\* (revealRole, nextPlayer, toggleTimer, tick, openVoting, back, castVote,
\* continueAfterElimination, endGame) changes the role of any player.
Roles(ps) == [i \in 1..Len(ps) |-> << ps[i].id, ps[i].role >>]

C18_RolesFixed ==
  [][(gameState # "setup" /\ lastCall'.op # "resetGame") =>
       Roles(players') = Roles(players)]_vars

\* the summary after the only spy was voted out: the spy list still names it
C18_Witness ==
  /\ gameState = "summary"
  /\ victoryType = "players"
  /\ SpyPositions # {}
  /\ SpyPositions \subseteq Eliminated(players)

\* C19: whenever the last-voted player is set, the roster has a player with
\* the same id, and the stored record agrees with that roster entry on the
\* role and on isEliminated, which is true.
C19_VotedPlayerInSync ==
  votedPlayer # <<>> =>
    \E i \in Positions :
      /\ players[i].id = votedPlayer[1].id
      /\ players[i].role = votedPlayer[1].role
      /\ players[i].isEliminated = "true"
      /\ votedPlayer[1].isEliminated = players[i].isEliminated

\* C20: in every state whose phase is setup, initially and after every
\* resetGame, the selected word is the empty string.
C20_NoWordInSetup ==
  gameState = "setup" => selectedWord = ""

\* the roster has a player with this id
InRoster(ps, id) == \E i \in 1..Len(ps) : ps[i].id = id

\* C21: roster management touches the roster only.  addPlayer with a name
\* that is not empty after trimming appends exactly one player (the trimmed
\* name, role player, hasSeenRole false, not eliminated) at the end and keeps
\* the players before it; addPlayer with an empty or whitespace-only name and
\* removePlayer with an id not in the roster change nothing; none of them
\* changes the phase, word, category, spy count, timer, outcome or
\* last-voted player.
C21_RosterOnly ==
  [][/\ lastCall'.op = "addPlayer" =>
          LET name == Trim(lastCall'.arg)
          IN  IF name # <<>>
              THEN /\ Len(players') = Len(players) + 1
                   /\ SubSeq(players', 1, Len(players)) = players
                   /\ players'[Len(players')].name = name
                   /\ players'[Len(players')].role = "player"
                   /\ players'[Len(players')].hasSeenRole = FALSE
                   /\ players'[Len(players')].isEliminated # "true"
                   /\ ~InRoster(players, players'[Len(players')].id)
              ELSE players' = players
     /\ (lastCall'.op = "removePlayer" /\ ~InRoster(players, lastCall'.arg[1])) =>
          players' = players
     /\ lastCall'.op \in {"addPlayer", "removePlayer"} =>
          UNCHANGED << gameState, selectedWord, selectedCategory, spyCount,
                       timeLeft, isTimerActive, victoryType, votedPlayer >>]_vars

\* a player added, with the name trimmed, behind the players of an earlier
\* round
C21_Witness ==
  /\ JustCalled("addPlayer")
  /\ lastCall.arg = <<" ", "a", " ">>
  /\ Len(players) = MaxPlayers
  /\ players[Len(players)].name = <<"a">>
  /\ players[Len(players)].isEliminated = "undefined"
  /\ players[1].isEliminated = "false"

\* the number of players not eliminated
InPlay(ps) == Len(ps) - Cardinality(Eliminated(ps))

\* C22: whenever the phase is playing or voting, at least 3 players are not
\* eliminated, at least one of them is a spy and at least one is not; so the
\* voting screen always lists a player to vote for, and in a round of N
\* players at most N - 2 are ever eliminated: after the (N - 2)-th
\* elimination continueAfterElimination ends in summary.
C22_EnoughInPlay ==
  /\ gameState \in {"playing", "voting"} =>
       /\ InPlay(players) >= 3
       /\ Alive(players, "spy") # {}
       /\ Alive(players, "player") # {}
  /\ gameState = "voting" =>
       /\ VotingList(players) # <<>>
       /\ \E id \in Ids : Votable(players, id)
  /\ gameState # "setup" =>
       Cardinality(Eliminated(players)) <= Len(players) - 2
  /\ (JustCalled("continueAfterElimination")
        /\ Cardinality(Eliminated(players)) >= Len(players) - 2) =>
       gameState = "summary"

\* a second vote of a round: one player is out, three are in play, a spy and
\* a non-spy among them
C22_Witness ==
  /\ gameState = "voting"
  /\ Cardinality(Eliminated(players)) = 1
  /\ InPlay(players) = 3
  /\ Alive(players, "spy") # {}

\* C23: the outcome agrees with the roster.  Outside summary there is no
\* outcome; a win of the players means no spy is left in play; a win of the
\* spies means a spy is left in play and the non-spies in play are no more
\* than the spies in play.
C23_OutcomeConsistent ==
  /\ gameState # "summary" => victoryType = "null"
  /\ victoryType = "players" => Alive(players, "spy") = {}
  /\ victoryType = "spies" =>
       /\ Alive(players, "spy") # {}
       /\ Cardinality(Alive(players, "player")) <= Cardinality(Alive(players, "spy"))

\* the spies won outright: two spies in play and the only other player voted out
C23_Witness ==
  /\ gameState = "summary"
  /\ victoryType = "spies"
  /\ Cardinality(Alive(players, "spy")) = 2
  /\ Alive(players, "player") = {}

====
